---- MODULE Spec2Model ----
(***************************************************************************)
(* Model of MinecraftCrossplayServer (src/unnamed/part_000, lines 415 to   *)
(* 1275): the managed game-server process, the playit tunnel process, the  *)
(* seed check with its world backup, and the log buffer.  Every request    *)
(* handler and every child-process callback runs to completion on the      *)
(* single JavaScript thread, so each one is one action.                    *)
(***************************************************************************)
EXTENDS Integers, Sequences, FiniteSets, TLC

\* ---------------------------------------------------------------- bounds
\* Writes to the stdin of one managed process beyond which none is explored.
MaxStdin == 2
\* Files of a world directory.
NumFiles == 2
\* Backup directories beyond which no further backup is explored.
MaxBackups == 1
\* Tunnel processes that may be alive (spawned, not yet exited) at once.
MaxTunnelProcs == 2
\* Calls of broadcastLog beyond which none is explored.
MaxAppends == 1002
\* Entries sent to the connected socket beyond which none is explored.
MaxLive == 2
\* Texts in a line given to parseMinecraftLog on its own.
MaxLineTexts == 2
\* Lines in a chunk of tunnel output given to the stdout handler on its own.
MaxChunkLines == 2

\* ------------------------------------------------------ program constants
javaPort == 25565
bedrockPort == 19132
\* A local port that is neither of the two.
otherPort == 8080
maxLogs == 1000

\* The null reference of a process handle or of the start time.
NULL == 0
\* The null reference of an address or of the setup URL.
NoAddress == "null"

Files == 1 .. NumFiles
Seeds == {"", "s1"}
ExitCodes == {0, 1}
\* Identities of managed processes; the code allows one at a time.
McIds == {1, 2}
TunnelIds == 1 .. MaxTunnelProcs
Commands == {"say hi"}
\* What stdin.write is given for a line of text.
Line(text) == text \o "\n"

VARIABLES
    serverStatus,           \* this.serverStatus
    minecraftProcess,       \* this.minecraftProcess: NULL or a process id
    serverReady,            \* this.serverReady
    startTime,              \* this.startTime: NULL or 1 (a timestamp)
    emitted,                \* the entries the last handler passed to
                            \* broadcastLog, in order: each one is pushed
                            \* on this.logs and emitted as 'new-log'
    config,                 \* this.config
    diskConfig,             \* the document in ./config.json
    world,                  \* the world directory: file -> content, 0 absent
    worldExists,            \* whether the world directory exists
    backups,                \* the backup directories, oldest first
    playitInstalled,        \* this.playitInstalled
    playitProcess,          \* this.playitProcess: NULL or a process id
    playitAddresses,        \* this.playitAddresses
    lastPlayitOutput,       \* this.lastPlayitOutput
    playitTunnelsDetected,  \* this.playitTunnelsDetected
    playitSetupUrl,         \* this.playitSetupUrl
    mcProcs,                \* managed processes spawned and not yet exited
    mcStdin,                \* what was written to the stdin of the handle
    tunnelProcs,            \* tunnel processes spawned and not yet exited
    tunnelSignalled,        \* tunnel processes that were sent SIGTERM
    lastEvent,              \* the handler that ran last and what it answered
    crashed,                \* the orchestrator died of an uncaught exception
    configFile,             \* ./config.json: "absent", "garbage" (it does
                            \* not parse), "legacy" (no world block) or
                            \* "current"; diskConfig is what it holds
    logs,                   \* this.logs
    appended,               \* how many times broadcastLog was called
    socketState,            \* the web client's socket: "idle" or "connected"
    socketHistory,          \* the 'recent-logs' array the socket was sent
    socketLive,             \* the 'new-log' entries the socket was sent
    classified,             \* a line given to parseMinecraftLog and the result
    emittedAt               \* for the entries of the stdout handler: what
                            \* GET /status would have answered at the moment
                            \* each entry of emitted was passed to
                            \* broadcastLog; <<>> after any other handler

vars == <<serverStatus, minecraftProcess, serverReady, startTime, emitted,
          config, diskConfig, world, worldExists, backups, playitInstalled,
          playitProcess, playitAddresses, lastPlayitOutput,
          playitTunnelsDetected, playitSetupUrl, mcProcs, mcStdin,
          tunnelProcs, tunnelSignalled, lastEvent, crashed, configFile,
          logs, appended, socketState, socketHistory, socketLive,
          classified, emittedAt>>

serverVars == <<serverStatus, minecraftProcess, serverReady, startTime,
                mcProcs, mcStdin>>
tunnelVars == <<playitProcess, playitAddresses, lastPlayitOutput,
                playitTunnelsDetected, playitSetupUrl, tunnelProcs,
                tunnelSignalled>>
diskVars == <<config, diskConfig, world, worldExists, backups>>
logVars == <<logs, appended, socketState, socketHistory, socketLive>>

\* A handler of the orchestrator runs only while the orchestrator lives.
\* The log buffer and the sockets are followed under LogSpec, the reading of
\* ./config.json under LoadSpec and parseMinecraftLog over all its rules
\* under ClassifySpec: under the other specifications the entries a handler
\* logs are in emitted.
Serving ==
    /\ ~crashed
    /\ emittedAt' = <<>>
    /\ UNCHANGED <<configFile, logVars, classified>>

\* ------------------------------------------------------------ log entries
\* The argument pair of one broadcastLog call.
Entry(m, t) == [message |-> m, type |-> t]

Range(s) == {s[i] : i \in 1 .. Len(s)}


\* The document createDefaultConfig makes.
DefaultConfig ==
    [seed |-> "", lastUsedSeed |-> "", currentSeed |-> "",
     worldGenerated |-> FALSE, playit |-> "auto", performance |-> TRUE]

\* createDefaultConfig, called when config.json is in state file with
\* content disk: the default document is written to it, or the write fails.
CreateDefaultConfig(file, disk) ==
    {[config |-> DefaultConfig,
      configFile |-> IF wrote THEN "current" ELSE file,
      diskConfig |-> IF wrote THEN DefaultConfig ELSE disk,
      entries |-> <<IF wrote THEN Entry("Default config.json created", "success")
                    ELSE Entry("Failed to create config file", "error")>>,
      result |-> "default"] : wrote \in BOOLEAN}

\* A migration that takes the world not to be generated yet.
MigrateConfig_NotGenerated(doc) ==
    [doc EXCEPT !.currentSeed = doc.seed, !.lastUsedSeed = doc.seed,
                !.worldGenerated = FALSE]

\* The world block loadConfig adds to a document that has none; seed || ""
\* is the seed, a string.
MigrateConfig(doc) ==
    [doc EXCEPT !.currentSeed = doc.seed, !.lastUsedSeed = doc.seed,
                !.worldGenerated = TRUE]

\* loadConfig: the outcomes of reading config.json, which is "absent",
\* "garbage" (not JSON, or not an object with a server block), "legacy" (no
\* world block) or "current", with content disk.
LoadConfig(file, disk) ==
    IF file = "absent"
    THEN {[made EXCEPT !.entries = <<Entry("Config file not found", "warn")>> \o @] :
             made \in CreateDefaultConfig(file, disk)}
    ELSE LET failed ==
                 {[made EXCEPT !.entries =
                       <<Entry("Error loading config", "error"),
                         Entry("Using default configuration", "info")>> \o @] :
                      made \in CreateDefaultConfig(file, disk)}
         IN  IF file = "garbage" THEN failed
             ELSE IF file = "legacy"
             THEN {[config |-> MigrateConfig(disk),
                    configFile |-> "current",
                    diskConfig |-> MigrateConfig(disk),
                    entries |-> <<Entry("Config migrated", "info"),
                                  Entry("Configuration loaded successfully", "success")>>,
                    result |-> "migrated"]} \cup failed
             ELSE {[config |-> disk, configFile |-> file, diskConfig |-> disk,
                    entries |-> <<Entry("Configuration loaded successfully", "success")>>,
                    result |-> "loaded"]}

\* ------------------------------------------------------------ ConfigStore
\* saveConfig that reports a save and writes nothing.
SaveConfig_WritesNothing(cfg, dsk) ==
    { [diskConfig |-> dsk, saved |-> TRUE,
       entries |-> <<Entry("Configuration saved successfully", "success")>>] }

\* saveConfig: the write succeeds or throws; either way one entry is logged.
SaveConfig(cfg, dsk) ==
    { [diskConfig |-> cfg, saved |-> TRUE,
       entries |-> <<Entry("Configuration saved successfully", "success")>>],
      [diskConfig |-> dsk, saved |-> FALSE,
       entries |-> <<Entry("Failed to save config", "error")>>] }

\* updateWorldConfig that leaves worldGenerated as it is.
UpdateWorldConfig_KeepsGenerated(cfg, seed) ==
    [cfg EXCEPT !.lastUsedSeed = seed, !.currentSeed = seed]

\* updateWorldConfig, before its saveConfig.
UpdateWorldConfig(cfg, seed) ==
    [cfg EXCEPT !.lastUsedSeed = seed, !.currentSeed = seed,
                !.worldGenerated = FALSE]

\* markWorldAsGenerated that sets nothing.
MarkWorldAsGenerated_Noop(cfg) == cfg

\* markWorldAsGenerated, before its saveConfig.
MarkWorldAsGenerated(cfg) == [cfg EXCEPT !.worldGenerated = TRUE]

\* --------------------------------------------------------- WorldSeedGuard
NoFiles == [f \in Files |-> 0]
\* The world a managed process generates: each file with its own content.
FreshWorld == [f \in Files |-> f]

\* copyDirectorySync that skips the last directory entry it is to copy.
CopyDirectorySync_SkipsLast(w, k) == [f \in Files |-> IF f < k THEN w[f] ELSE 0]

\* copyDirectorySync stopped after the first k directory entries.
CopyDirectorySync(w, k) == [f \in Files |-> IF f <= k THEN w[f] ELSE 0]

\* fs.rmSync stopped after the first j directory entries.
RemoveDirectorySync(w, j) == [f \in Files |-> IF f <= j THEN 0 ELSE w[f]]

\* backupExistingWorld that removes the world directory before it copies.
BackupExistingWorld_DeletesFirst(w, bks) ==
    LET creating == Entry("Creating backup of existing world", "info")
        created  == Entry("World backup created", "success")
        location == Entry("Backup location", "info")
        removed  == Entry("Original world removed", "info")
    IN  { [world |-> NoFiles, worldExists |-> FALSE,
           backups |-> Append(bks, CopyDirectorySync(w, k)),
           entries |-> <<creating>>, success |-> FALSE, stage |-> "copy"]
          : k \in 0 .. NumFiles - 1 }
        \cup
        { [world |-> NoFiles, worldExists |-> FALSE,
           backups |-> Append(bks, CopyDirectorySync(w, NumFiles)),
           entries |-> <<creating, created, location, removed>>,
           success |-> TRUE, stage |-> "done"] }

\* backupExistingWorld: every outcome the file system allows.  mkdirSync,
\* copyFileSync and rmSync may each throw; the catch turns any of them into
\* success = false and undoes nothing.
BackupExistingWorld(w, bks) ==
    LET creating == Entry("Creating backup of existing world", "info")
        created  == Entry("World backup created", "success")
        location == Entry("Backup location", "info")
        removed  == Entry("Original world removed", "info")
        full     == Append(bks, CopyDirectorySync(w, NumFiles))
    IN  { [world |-> w, worldExists |-> TRUE, backups |-> bks,
           entries |-> <<creating>>, success |-> FALSE, stage |-> "mkdir"] }
        \cup
        { [world |-> w, worldExists |-> TRUE,
           backups |-> Append(bks, CopyDirectorySync(w, k)),
           entries |-> <<creating>>, success |-> FALSE, stage |-> "copy"]
          : k \in 0 .. NumFiles - 1 }
        \cup
        { [world |-> RemoveDirectorySync(w, j), worldExists |-> TRUE,
           backups |-> full, entries |-> <<creating, created, location>>,
           success |-> FALSE, stage |-> "remove"]
          : j \in 0 .. NumFiles }
        \cup
        { [world |-> NoFiles, worldExists |-> FALSE, backups |-> full,
           entries |-> <<creating, created, location, removed>>,
           success |-> TRUE, stage |-> "done"] }

\* A seed test that finds a change whatever the seeds are.
SeedChanged_Always(currentSeed, lastUsedSeed) == TRUE

\* The test of checkSeedChange on the configured and the last-used seed.
SeedChanged(currentSeed, lastUsedSeed) == currentSeed # lastUsedSeed

\* checkSeedChange: every outcome, with the entries it logs in order.
CheckSeedChange(cfg, dsk, w, wex, bks) ==
    LET currentSeed  == cfg.seed
        lastUsedSeed == cfg.lastUsedSeed
        checking     == Entry("Checking world seed configuration", "info")
        unchanged(es, should, why, stage) ==
            [config |-> cfg, diskConfig |-> dsk, world |-> w,
             worldExists |-> wex, backups |-> bks, entries |-> es,
             shouldCreateNew |-> should, reason |-> why, stage |-> stage]
    IN  IF ~wex THEN
            { [config |-> UpdateWorldConfig(cfg, currentSeed),
               diskConfig |-> sv.diskConfig, world |-> w, worldExists |-> wex,
               backups |-> bks,
               entries |-> <<checking,
                             Entry("No existing world found", "info"),
                             IF currentSeed # ""
                             THEN Entry("New world will use seed", "info")
                             ELSE Entry("New world will use random seed", "info")>>
                           \o sv.entries,
               shouldCreateNew |-> TRUE, reason |-> "no_world_exists",
               stage |-> "none"]
              : sv \in SaveConfig(UpdateWorldConfig(cfg, currentSeed), dsk) }
        ELSE IF SeedChanged(currentSeed, lastUsedSeed) THEN
            LET detected == <<checking, Entry("Seed change detected", "warn"),
                              Entry("Previous seed", "info"),
                              Entry("New seed", "info")>>
            IN  UNION { IF b.success
                        THEN { [config |-> UpdateWorldConfig(cfg, currentSeed),
                                diskConfig |-> sv.diskConfig,
                                world |-> b.world,
                                worldExists |-> b.worldExists,
                                backups |-> b.backups,
                                entries |-> detected \o b.entries \o sv.entries,
                                shouldCreateNew |-> TRUE,
                                reason |-> "seed_changed", stage |-> b.stage]
                               : sv \in SaveConfig(
                                     UpdateWorldConfig(cfg, currentSeed), dsk) }
                        ELSE { [config |-> cfg, diskConfig |-> dsk,
                                world |-> b.world,
                                worldExists |-> b.worldExists,
                                backups |-> b.backups,
                                entries |-> detected \o b.entries \o
                                    <<Entry("Failed to backup world", "error"),
                                      Entry("Keeping existing world to prevent data loss", "warn")>>,
                                shouldCreateNew |-> FALSE,
                                reason |-> "backup_failed", stage |-> b.stage] }
                        : b \in BackupExistingWorld(w, bks) }
        ELSE { unchanged(<<checking,
                           Entry("Using existing world (seed unchanged)", "success")>>,
                         FALSE, "seed_unchanged", "none") }

\* ------------------------------------------------------- TunnelSupervisor
\* A chunk of tunnel output is the sequence of its lines.
BindLine(a, p) == [kind |-> "bind", address |-> a, port |-> p]
SetupLine      == [kind |-> "setup", address |-> "u1", port |-> 0]
ApprovedLine   == [kind |-> "approved", address |-> "", port |-> 0]

\* The chunks the tunnel process is let to print: its two bindings, or the
\* setup notice.
TunnelOutputs == { <<BindLine("a1", javaPort), BindLine("b1", bedrockPort)>>,
                   <<SetupLine>> }

NoAddresses == [java |-> NoAddress, bedrock |-> NoAddress]

\* The name by which an event records the chunk that was delivered.
ChunkName(output) ==
    IF output = <<SetupLine>> THEN "setup notice" ELSE "bindings"

\* The tunnel fields of the object, as one record.
TunnelState ==
    [proc |-> playitProcess, addresses |-> playitAddresses,
     last |-> lastPlayitOutput, detected |-> playitTunnelsDetected,
     setupUrl |-> playitSetupUrl, procs |-> tunnelProcs,
     signalled |-> tunnelSignalled, entries |-> <<>>]

\* A comparison of a parsed address with the stored one that never finds
\* them equal.
SameBinding_Never(stored, address) == FALSE

\* The test of parsePlayitOutput on the stored binding of a port.
SameBinding(stored, address) == stored = address

\* A test on the local port that takes any port but the Bedrock one for the
\* Java one.
PortKind_DefaultsToJava(port) ==
    IF port = bedrockPort THEN "bedrock" ELSE "java"

\* The tests of parsePlayitOutput on the local port of a binding line.
PortKind(port) ==
    IF port = javaPort THEN "java"
    ELSE IF port = bedrockPort THEN "bedrock"
    ELSE "other"

\* parsePlayitOutput: line by line; a binding is stored and logged only when
\* it differs from the stored one.
RECURSIVE ParsePlayitOutput(_, _)
ParsePlayitOutput(r, lines) ==
    IF lines = <<>> THEN r
    ELSE LET line == Head(lines)
             next ==
               IF line.kind # "bind" THEN r
               ELSE IF PortKind(line.port) = "java" THEN
                   IF ~SameBinding(r.addresses.java, line.address)
                   THEN [r EXCEPT !.addresses.java = line.address,
                                  !.entries = Append(@, Entry("Java tunnel ready", "success")),
                                  !.tunnelsFound = TRUE]
                   ELSE [r EXCEPT !.tunnelsFound = TRUE]
               ELSE IF PortKind(line.port) = "bedrock" THEN
                   IF ~SameBinding(r.addresses.bedrock, line.address)
                   THEN [r EXCEPT !.addresses.bedrock = line.address,
                                  !.entries = Append(@, Entry("Bedrock tunnel ready", "success")),
                                  !.tunnelsFound = TRUE]
                   ELSE [r EXCEPT !.tunnelsFound = TRUE]
               ELSE [r EXCEPT !.tunnelsFound = TRUE]
         IN  ParsePlayitOutput(next, Tail(lines))

HasLine(output, k) == \E i \in 1 .. Len(output) : output[i].kind = k
SetupUrlOf(output) ==
    (CHOOSE i \in 1 .. Len(output) : output[i].kind = "setup"
        /\ \A j \in 1 .. i - 1 : output[j].kind # "setup") 

\* The stdout handler of a tunnel process.
PlayitStdout(t, output) ==
    IF output = t.last THEN t
    ELSE LET t1 == [t EXCEPT !.last = output]
             t2 == IF HasLine(output, "setup")
                   THEN [t1 EXCEPT !.setupUrl = output[SetupUrlOf(output)].address,
                                   !.entries = Append(@, Entry("[PLAYIT]: Setup required", "warn"))]
                   ELSE t1
             t3 == IF HasLine(output, "approved")
                   THEN [t2 EXCEPT !.entries = Append(@, Entry("[PLAYIT]: Program approved", "success"))]
                   ELSE t2
             pr == ParsePlayitOutput([addresses |-> t3.addresses,
                                      entries |-> t3.entries,
                                      tunnelsFound |-> FALSE], output)
             t4 == [t3 EXCEPT !.addresses = pr.addresses,
                              !.entries = pr.entries]
         IN  IF pr.tunnelsFound /\ ~t4.detected
             THEN [t4 EXCEPT !.detected = TRUE,
                             !.entries = Append(@, Entry("[PLAYIT]: Tunnels detected and active", "success"))]
             ELSE t4

\* The close handler of a tunnel process.
PlayitClose(t, p, code) ==
    [t EXCEPT !.entries = Append(@, Entry("Playit tunnel exited",
                                          IF code = 0 THEN "info" ELSE "error")),
              !.proc = NULL, !.addresses = NoAddresses, !.detected = FALSE,
              !.procs = @ \ {p}, !.signalled = @ \ {p}]

\* stopPlayitTunnel that forgets to kill and to clear.
StopPlayitTunnel_Forgets(t) == t

\* stopPlayitTunnel
StopPlayitTunnel(t) ==
    IF t.proc # NULL
    THEN [t EXCEPT !.entries = Append(@, Entry("Stopping Playit tunnels", "info")),
                   !.signalled = @ \cup {t.proc},
                   !.proc = NULL, !.addresses = NoAddresses,
                   !.detected = FALSE]
    ELSE t

\* resetPlayitState that keeps the setup URL.
ResetPlayitState_KeepsSetupUrl(t) ==
    [t EXCEPT !.addresses = NoAddresses, !.detected = FALSE]

\* resetPlayitState
ResetPlayitState(t) ==
    [t EXCEPT !.addresses = NoAddresses, !.detected = FALSE,
              !.setupUrl = NoAddress]

FreeTunnelId(t) == CHOOSE p \in TunnelIds \ t.procs :
                       \A q \in TunnelIds \ t.procs : p <= q

\* startPlayitTunnel without its test on the handle.
StartPlayitTunnel_NoRunningGuard(t, installed, spawned) ==
    IF ~installed
    THEN [t EXCEPT !.entries = Append(@, Entry("Playit.gg not installed - skipping tunnel creation", "warn"))]
    ELSE LET t1 == [t EXCEPT !.entries = Append(@, Entry("Starting Playit.gg tunnels", "info"))]
         IN  IF spawned
             THEN [t1 EXCEPT !.proc = FreeTunnelId(t), !.procs = @ \cup {FreeTunnelId(t)}]
             ELSE [t1 EXCEPT !.entries = Append(@, Entry("Failed to start Playit tunnel", "error"))]

\* startPlayitTunnel: spawned says whether spawn returned or threw.
StartPlayitTunnel(t, installed, spawned) ==
    IF ~installed
    THEN [t EXCEPT !.entries = Append(@, Entry("Playit.gg not installed - skipping tunnel creation", "warn"))]
    ELSE IF t.proc # NULL
    THEN [t EXCEPT !.entries = Append(@, Entry("Playit tunnel already running", "warn"))]
    ELSE LET t1 == [t EXCEPT !.entries = Append(@, Entry("Starting Playit.gg tunnels", "info"))]
         IN  IF spawned
             THEN [t1 EXCEPT !.proc = FreeTunnelId(t), !.procs = @ \cup {FreeTunnelId(t)}]
             ELSE [t1 EXCEPT !.entries = Append(@, Entry("Failed to start Playit tunnel", "error"))]

\* ---------------------------------------------------------- LogClassifier
\* An output line of the managed process is a sequence of texts from
\* LineTexts, written with single spaces between them; an emoji of a
\* decorated message is written by its name, in parentheses.
Words ==
    {"Alice", "ERROR", "SEVERE", "WARN", "Loading", "Enabling", "plugin",
     "ViaVersion", "enabled"}
Phrases ==
    {"joined the game", "left the game", "<", ">",
     "Starting minecraft server version", "Done (", "For help, type \"help\"",
     "Preparing spawn area", "Preparing level", "Time elapsed:",
     "Started Geyser"}
LineTexts == Words \cup Phrases

\* The text of the line.
RECURSIVE Text(_)
Text(line) ==
    IF line = <<>> THEN ""
    ELSE IF Len(line) = 1 THEN line[1]
    ELSE line[1] \o " " \o Text(Tail(line))

\* message.includes(marker)
Includes(line, marker) ==
    \E i \in 1 .. Len(line) :
        \/ line[i] = marker
        \/ line[i] = "Started Geyser" /\ marker = "Geyser"

\* The run of word characters a text ends with, "" if it ends with another
\* character.
WordSuffix(text) ==
    IF text \in Words THEN text
    ELSE IF text \in {"joined the game", "left the game"} THEN "game"
    ELSE IF text = "Starting minecraft server version" THEN "version"
    ELSE IF text = "Preparing spawn area" THEN "area"
    ELSE IF text = "Preparing level" THEN "level"
    ELSE IF text = "Started Geyser" THEN "Geyser"
    ELSE ""

\* message.match(/(\w+) <event>/)?.[1], as the template literal prints it:
\* the word before the leftmost occurrence of the event that has one.
PlayerName(line, event) ==
    LET found == {i \in 2 .. Len(line) :
                     line[i] = event /\ WordSuffix(line[i - 1]) # ""}
    IN  IF found = {} THEN "undefined"
        ELSE WordSuffix(line[(CHOOSE i \in found : \A j \in found : i <= j) - 1])

DoneMarkers == {"Done (", "For help, type \"help\""}
IsDoneLine(line) == \A marker \in DoneMarkers : Includes(line, marker)

\* parseMinecraftLog that looks for errors before anything else.
ParseMinecraftLog_ErrorsFirst(line) ==
    IF Includes(line, "ERROR") \/ Includes(line, "SEVERE")
        THEN Entry("(cross) " \o Text(line), "error")
    ELSE IF Includes(line, "WARN")
        THEN Entry("(warning) " \o Text(line), "warn")
    ELSE IF Includes(line, "joined the game")
        THEN Entry("(green) " \o PlayerName(line, "joined the game")
                   \o " joined the game", "player")
    ELSE Entry(Text(line), "info")

ParseMinecraftLog(line) ==
    IF Includes(line, "joined the game")
        THEN Entry("(green) " \o PlayerName(line, "joined the game")
                   \o " joined the game", "player")
    ELSE IF Includes(line, "left the game")
        THEN Entry("(red) " \o PlayerName(line, "left the game")
                   \o " left the game", "player")
    ELSE IF Includes(line, "<") /\ Includes(line, ">")
        THEN Entry("(chat) " \o Text(line), "player")
    ELSE IF Includes(line, "Starting minecraft server version")
        THEN Entry("(rocket) " \o Text(line), "success")
    ELSE IF Includes(line, "Done (") /\ Includes(line, "For help, type \"help\"")
        THEN Entry("(check) Server startup complete! " \o Text(line), "success")
    ELSE IF Includes(line, "Preparing spawn area") \/ Includes(line, "Preparing level")
        THEN Entry("(globe) " \o Text(line), "world")
    ELSE IF Includes(line, "Time elapsed:")
        THEN Entry("(timer) " \o Text(line), "world")
    ELSE IF Includes(line, "Loading") /\ Includes(line, "plugin")
        THEN Entry("(plug) " \o Text(line), "info")
    ELSE IF Includes(line, "Enabling") /\ Includes(line, "plugin")
        THEN Entry("(check) " \o Text(line), "success")
    ELSE IF Includes(line, "Geyser") /\ Includes(line, "Started Geyser")
        THEN Entry("(link) Crossplay bridge (Geyser) is ONLINE!", "success")
    ELSE IF Includes(line, "ViaVersion") /\ Includes(line, "enabled")
        THEN Entry("(cycle) Multi-version support (ViaVersion) is ONLINE!", "success")
    ELSE IF Includes(line, "ERROR") \/ Includes(line, "SEVERE")
        THEN Entry("(cross) " \o Text(line), "error")
    ELSE IF Includes(line, "WARN")
        THEN Entry("(warning) " \o Text(line), "warn")
    ELSE Entry(Text(line), "info")

\* The output lines the managed process is let to print.
McLines == {<<"Done (", "For help, type \"help\"">>, <<>>}

\* ------------------------------------------------ ServerProcessSupervisor
Event(op, from, result, reason, stage, code) ==
    [op |-> op, from |-> from, result |-> result, reason |-> reason,
     stage |-> stage, code |-> code]

\* The tunnel fields take the values of the record t.
SetTunnel(t) ==
    /\ playitProcess' = t.proc
    /\ playitAddresses' = t.addresses
    /\ lastPlayitOutput' = t.last
    /\ playitTunnelsDetected' = t.detected
    /\ playitSetupUrl' = t.setupUrl
    /\ tunnelProcs' = t.procs
    /\ tunnelSignalled' = t.signalled

FreeMcId == CHOOSE p \in McIds \ mcProcs : \A q \in McIds \ mcProcs : p <= q

\* displayConnectionInfo
DisplayConnectionInfo(addresses) ==
    <<Entry("MINECRAFT CROSSPLAY SERVER IS ONLINE", "success"),
      Entry("Java Edition Local", "info"),
      Entry("Bedrock Edition Local", "info"),
      Entry("Network Java", "info"),
      Entry("Network Bedrock", "info")>>
    \o (IF addresses.java # NoAddress
        THEN <<Entry("Public Java (Playit)", "success")>> ELSE <<>>)
    \o (IF addresses.bedrock # NoAddress
        THEN <<Entry("Public Bedrock (Playit)", "success")>> ELSE <<>>)
    \o <<Entry("Share these addresses with friends", "success")>>

\* A test on the handle that never finds a managed process.
AlreadyRunning_Never == FALSE

\* The test of startMinecraftServer on the handle.
AlreadyRunning == minecraftProcess # NULL

\* startMinecraftServer, called by POST /start in the status from.  javaFound
\* says whether the system could start 'java': if it could not, spawn still
\* returns a ChildProcess, whose 'error' event is emitted on the next tick;
\* nothing listens to it, so it is thrown and ends the orchestrator before
\* any other handler runs.  playitFound says the same of the tunnel binary.
StartMinecraftServer(from) ==
    IF AlreadyRunning THEN
        /\ emitted' = <<Entry("Server already running", "warn")>>
        /\ lastEvent' = Event("start", from, "success", "none", "none", 0)
        /\ UNCHANGED <<serverVars, tunnelVars, diskVars, playitInstalled,
                       crashed>>
    ELSE
        \E sc \in CheckSeedChange(config, diskConfig, world, worldExists, backups),
           tunnelSpawned \in BOOLEAN, javaFound \in BOOLEAN,
           playitFound \in BOOLEAN :
          LET seedEntries ==
                  IF sc.shouldCreateNew /\ sc.reason = "seed_changed"
                  THEN <<Entry("New world will be generated with seed", "success"),
                         Entry("Previous world backed up as", "info")>>
                  ELSE IF sc.shouldCreateNew /\ sc.reason = "no_world_exists"
                  THEN <<Entry("Generating new world", "success")>>
                  ELSE <<>>
              banner ==
                  <<Entry("STARTING MINECRAFT CROSSPLAY SERVER", "success"),
                    Entry("Local IP", "info"), Entry("Public IP", "info"),
                    Entry("Game mode, Difficulty", "info"),
                    Entry("Max players", "info")>>
                  \o (IF sc.config.seed # ""
                      THEN <<Entry("World seed", "info")>> ELSE <<>>)
              \* this.config.playit.autoStart is read only if playitInstalled
              noPlayitBlock == playitInstalled /\ sc.config.playit = "missing"
              autoStart == playitInstalled /\ sc.config.playit = "auto"
              t0 == TunnelState
              t1 == IF autoStart
                    THEN StartPlayitTunnel(
                             [t0 EXCEPT !.entries = <<Entry("Playit.gg detected - Starting public tunnels", "success")>>],
                             playitInstalled, tunnelSpawned)
                    ELSE [t0 EXCEPT !.entries = <<Entry("Playit.gg not installed - Server will only be available locally/LAN", "warn")>>]
              \* spawn returned a tunnel process
              tunnelTried == ~noPlayitBlock /\ t1.proc # t0.proc
              tunnel == IF noPlayitBlock THEN t0
                        ELSE IF playitFound THEN t1
                        ELSE [t1 EXCEPT !.procs = t0.procs]
              tunnelEntries ==
                  IF noPlayitBlock THEN <<>>
                  ELSE t1.entries \o <<Entry("Please wait while server initializes", "info")>>
              \* this.config.performance.maxMemory
              noPerformanceBlock == ~noPlayitBlock /\ ~sc.config.performance
              spawned == ~noPlayitBlock /\ ~noPerformanceBlock
          IN  /\ Len(sc.backups) <= MaxBackups
              /\ (autoStart /\ playitProcess = NULL) => TunnelIds \ tunnelProcs # {}
              /\ ~(autoStart /\ playitProcess = NULL) => tunnelSpawned
              /\ McIds \ mcProcs # {}
              /\ ~spawned => javaFound
              /\ ~tunnelTried => playitFound
              /\ config' = sc.config
              /\ diskConfig' = sc.diskConfig
              /\ world' = sc.world
              /\ worldExists' = sc.worldExists
              /\ backups' = sc.backups
              /\ serverStatus' = "starting"
              /\ serverReady' = FALSE
              /\ startTime' = 1
              /\ emitted' = ( sc.entries \o seedEntries \o banner
                                            \o tunnelEntries)
              /\ SetTunnel(tunnel)
              /\ minecraftProcess' = IF spawned THEN FreeMcId ELSE NULL
              /\ mcProcs' = IF spawned /\ javaFound
                            THEN mcProcs \cup {FreeMcId} ELSE mcProcs
              /\ crashed' = (~javaFound \/ ~playitFound)
              /\ mcStdin' = IF spawned THEN <<>> ELSE mcStdin
              /\ lastEvent' = Event("start", from,
                                    IF spawned THEN "success" ELSE "threw",
                                    sc.reason, sc.stage, 0)
              /\ UNCHANGED playitInstalled

\* POST /start
PostStart ==
    /\ Serving
    /\ IF serverStatus = "starting" \/ serverStatus = "online"
       THEN /\ lastEvent' = Event("start", serverStatus, "rejected", "none", "none", 0)
            /\ emitted' = <<>>
            /\ UNCHANGED <<serverVars, tunnelVars, diskVars, playitInstalled,
                           crashed>>
       ELSE StartMinecraftServer(serverStatus)

\* stopMinecraftServer that leaves the tunnel alone.
StopMinecraftServer_KeepsTunnel ==
    IF minecraftProcess # NULL THEN
        /\ Len(mcStdin) < MaxStdin
        /\ serverStatus' = "stopping"
        /\ emitted' = <<Entry("Stopping Minecraft server", "info")>>
        /\ mcStdin' = Append(mcStdin, Line("stop"))
        /\ UNCHANGED <<minecraftProcess, serverReady, startTime, mcProcs,
                       tunnelVars>>
    ELSE /\ emitted' = <<>>
         /\ UNCHANGED <<serverVars, tunnelVars>>

\* stopMinecraftServer
StopMinecraftServer ==
    IF minecraftProcess # NULL THEN
        LET t == StopPlayitTunnel(ResetPlayitState(TunnelState))
        IN  /\ Len(mcStdin) < MaxStdin
            /\ serverStatus' = "stopping"
            /\ emitted' = (
                   <<Entry("Stopping Minecraft server", "info")>> \o t.entries)
            /\ SetTunnel(t)
            /\ mcStdin' = Append(mcStdin, Line("stop"))
            /\ UNCHANGED <<minecraftProcess, serverReady, startTime, mcProcs>>
    ELSE /\ emitted' = <<>>
         /\ UNCHANGED <<serverVars, tunnelVars>>

\* POST /stop without its offline guard.
PostStop_NoGuard ==
    /\ Serving
    /\ UNCHANGED crashed
    /\ StopMinecraftServer
    /\ lastEvent' = Event("stop", serverStatus, "success", "none", "none", 0)
    /\ UNCHANGED <<diskVars, playitInstalled>>

\* POST /stop
PostStop ==
    /\ Serving
    /\ UNCHANGED crashed
    /\ IF serverStatus = "offline"
       THEN /\ lastEvent' = Event("stop", serverStatus, "rejected", "none", "none", 0)
            /\ emitted' = <<>>
            /\ UNCHANGED <<serverVars, tunnelVars>>
       ELSE /\ StopMinecraftServer
            /\ lastEvent' = Event("stop", serverStatus, "success", "none", "none", 0)
    /\ UNCHANGED <<diskVars, playitInstalled>>

\* executeCommand
ExecuteCommand(command) ==
    IF minecraftProcess # NULL /\ serverReady
    THEN /\ Len(mcStdin) < MaxStdin
         /\ mcStdin' = Append(mcStdin, Line(command))
         /\ emitted' = <<Entry("Command executed", "info")>>
    ELSE /\ emitted' = <<>>
         /\ UNCHANGED mcStdin

\* POST /command without its status guard.
PostCommand_NoGuard ==
    /\ Serving
    /\ UNCHANGED crashed
    /\ \E command \in Commands :
           /\ ExecuteCommand(command)
           /\ lastEvent' = Event("command", serverStatus, "success",
                                 "none", "none", 0)
           /\ UNCHANGED <<serverStatus, minecraftProcess, serverReady, startTime,
                          mcProcs, tunnelVars, diskVars, playitInstalled>>

\* POST /command
PostCommand ==
    /\ Serving
    /\ UNCHANGED crashed
    /\ \E command \in Commands :
           /\ IF serverStatus # "online"
              THEN /\ lastEvent' = Event("command", serverStatus, "rejected",
                                         "none", "none", 0)
                   /\ emitted' = <<>>
                   /\ UNCHANGED mcStdin
              ELSE /\ ExecuteCommand(command)
                   /\ lastEvent' = Event("command", serverStatus, "success",
                                         "none", "none", 0)
           /\ UNCHANGED <<serverStatus, minecraftProcess, serverReady, startTime,
                          mcProcs, tunnelVars, diskVars, playitInstalled>>

\* POST /config with a body whose server block holds seed: the body is
\* merged into this.config, which is then saved; server.properties is
\* rewritten only if the save succeeded.
PostConfig ==
    /\ Serving
    /\ UNCHANGED crashed
    /\ \E seed \in Seeds :
           LET merged == [config EXCEPT !.seed = seed]
           IN  \E sv \in SaveConfig(merged, diskConfig) :
                 /\ config' = merged
                 /\ diskConfig' = sv.diskConfig
                 /\ emitted' = sv.entries \o
                        (IF sv.saved
                         THEN <<Entry("Server properties updated from configuration", "info")>>
                         ELSE <<>>)
                 /\ lastEvent' = Event("config", serverStatus,
                                       IF sv.saved THEN "success" ELSE "rejected",
                                       "none", "none", 0)
                 /\ UNCHANGED <<serverVars, tunnelVars, world, worldExists,
                                backups, playitInstalled>>

\* The stdout handler that logs what the readiness transition causes
\* before it changes the state.
StdoutStatusAt_LogsFirst(before, after, caused) ==
    [i \in 1 .. Len(caused) + 1 |-> before]

\* What GET /status would answer at each broadcastLog call of the stdout
\* handler: before at the entry of the line itself, which is logged first,
\* and after, the state the handler sets on a startup-complete line, at the
\* entries it logs from then on.
StdoutStatusAt(before, after, caused) ==
    <<before>> \o [i \in 1 .. Len(caused) |-> after]

\* The lifecycle state and readiness flag of GET /status.
Status(status, ready) == [status |-> status, ready |-> ready]

\* The stdout 'data' handler of the managed process p.
McStdout ==
    /\ ~crashed
    /\ UNCHANGED <<crashed, configFile, logVars, classified>>
    /\ \E p \in mcProcs, line \in McLines :
           /\ IF IsDoneLine(line)
              THEN \E sv \in SaveConfig(MarkWorldAsGenerated(config), diskConfig) :
                     /\ serverStatus' = "online"
                     /\ serverReady' = TRUE
                     /\ config' = MarkWorldAsGenerated(config)
                     /\ diskConfig' = sv.diskConfig
                     /\ emitted' =
                            (<<ParseMinecraftLog(line)>> \o sv.entries
                            \o <<Entry("SERVER IS NOW ONLINE", "success")>>
                            \o DisplayConnectionInfo(playitAddresses))
                     /\ emittedAt' =
                            StdoutStatusAt(Status(serverStatus, serverReady),
                                           Status("online", TRUE),
                                           sv.entries
                                           \o <<Entry("SERVER IS NOW ONLINE", "success")>>
                                           \o DisplayConnectionInfo(playitAddresses))
              ELSE /\ emitted' = <<ParseMinecraftLog(line)>>
                   /\ emittedAt' = <<Status(serverStatus, serverReady)>>
                   /\ UNCHANGED <<serverStatus, serverReady, config, diskConfig>>
           /\ lastEvent' = Event(IF IsDoneLine(line) THEN "done line" ELSE "line",
                                 serverStatus, "none", Text(line), "none", 0)
           /\ UNCHANGED <<minecraftProcess, startTime, mcProcs, mcStdin, tunnelVars,
                          world, worldExists, backups, playitInstalled>>

\* The lines the managed process is let to print on stderr.
McErrLines == {<<"WARN">>}

\* The stderr 'data' handler of the managed process p.
McStderr ==
    /\ Serving
    /\ UNCHANGED crashed
    /\ \E p \in mcProcs, line \in McErrLines :
           /\ emitted' = <<Entry("(boom) Error: " \o Text(line), "error")>>
           /\ lastEvent' = Event("stderr", serverStatus, "none", Text(line), "none", 0)
           /\ UNCHANGED <<serverVars, tunnelVars, diskVars, playitInstalled>>

\* The verdict of the 'close' handler with the test on the code inverted.
CloseEntries_Inverted(code, tunnelEntries) ==
    <<Entry("Minecraft server exited with code",
            IF code = 0 THEN "info" ELSE "error")>>
    \o tunnelEntries
    \o <<IF code = 0
         THEN Entry("Server crashed", "error")
         ELSE Entry("Server stopped normally", "success")>>

\* What the 'close' handler of the managed process logs: the exit line, the
\* entries of stopPlayitTunnel, then the verdict on the exit code.
CloseEntries(code, tunnelEntries) ==
    <<Entry("Minecraft server exited with code",
            IF code = 0 THEN "info" ELSE "error")>>
    \o tunnelEntries
    \o <<IF code # 0
         THEN Entry("Server crashed", "error")
         ELSE Entry("Server stopped normally", "success")>>

\* A 'close' handler that spawns the managed process again.
McClose_Restarts ==
    /\ Serving
    /\ UNCHANGED crashed
    /\ \E p \in mcProcs, code \in ExitCodes :
           LET t == StopPlayitTunnel(ResetPlayitState(TunnelState))
           IN  /\ minecraftProcess' = p
               /\ serverStatus' = "starting"
               /\ serverReady' = FALSE
               /\ startTime' = 1
               /\ SetTunnel(t)
               /\ emitted' = CloseEntries(code, t.entries)
               /\ mcProcs' = mcProcs
               /\ lastEvent' = Event("close", serverStatus, "none", "none", "none", code)
               /\ UNCHANGED <<mcStdin, diskVars, playitInstalled>>

\* The 'close' handler of the managed process p, which exited with code.
McClose ==
    /\ Serving
    /\ UNCHANGED crashed
    /\ \E p \in mcProcs, code \in ExitCodes :
           LET t == StopPlayitTunnel(ResetPlayitState(TunnelState))
           IN  /\ minecraftProcess' = NULL
               /\ serverStatus' = "offline"
               /\ serverReady' = FALSE
               /\ startTime' = NULL
               /\ SetTunnel(t)
               /\ emitted' = CloseEntries(code, t.entries)
               /\ mcProcs' = mcProcs \ {p}
               /\ lastEvent' = Event("close", serverStatus, "none", "none", "none", code)
               /\ UNCHANGED <<mcStdin, diskVars, playitInstalled>>

\* The managed process writes its world directory.
McWritesWorld ==
    /\ Serving
    /\ UNCHANGED crashed
    /\ mcProcs # {}
    /\ ~worldExists \/ world # FreshWorld
    /\ world' = FreshWorld
    /\ worldExists' = TRUE
    /\ lastEvent' = Event("world written", serverStatus, "none", "none", "none", 0)
    /\ UNCHANGED <<serverVars, tunnelVars, config, diskConfig, backups,
                   playitInstalled, emitted>>

\* The stdout 'data' handler of the tunnel process p, given one of outputs.
PlayitStdoutOf(outputs) ==
    /\ Serving
    /\ UNCHANGED crashed
    /\ \E p \in tunnelProcs, output \in outputs :
           LET t == PlayitStdout(TunnelState, output)
           IN  /\ SetTunnel(t)
               /\ emitted' = t.entries
               /\ lastEvent' = Event("tunnel output", serverStatus, "none",
                                     ChunkName(output), "none", 0)
               /\ UNCHANGED <<serverVars, diskVars, playitInstalled>>

PlayitStdoutData == PlayitStdoutOf(TunnelOutputs)

\* The binding lines given to the stdout handler on its own: the Java port
\* at either of two addresses, the Bedrock port, and a port that is neither.
BindLines ==
    {BindLine("a1", javaPort), BindLine("a2", javaPort),
     BindLine("b1", bedrockPort), BindLine("a1", otherPort)}

\* Every chunk of at most MaxChunkLines binding lines.
BindOutputs ==
    UNION {[1 .. n -> BindLines] : n \in 1 .. MaxChunkLines}

PlayitBindingData == PlayitStdoutOf(BindOutputs)

\* The stderr 'data' handler of the tunnel process p.
PlayitStderrData ==
    /\ Serving
    /\ UNCHANGED crashed
    /\ \E p \in tunnelProcs :
           /\ emitted' = <<Entry("[PLAYIT ERROR]", "error")>>
           /\ lastEvent' = Event("tunnel stderr", serverStatus, "none", "none", "none", 0)
           /\ UNCHANGED <<serverVars, tunnelVars, diskVars, playitInstalled>>

\* The 'close' handler of the tunnel process p, which exited with code.
PlayitCloseEvent ==
    /\ Serving
    /\ UNCHANGED crashed
    /\ \E p \in tunnelProcs, code \in ExitCodes :
           LET t == PlayitClose(TunnelState, p, code)
           IN  /\ SetTunnel(t)
               /\ emitted' = t.entries
               /\ lastEvent' = Event("tunnel close", serverStatus, "none", "none", "none", code)
               /\ UNCHANGED <<serverVars, diskVars, playitInstalled>>

\* The constructor of a newly started orchestrator reads config.json.
LoadConfigCall ==
    /\ ~crashed
    /\ \E loaded \in LoadConfig(configFile, diskConfig) :
           /\ config' = loaded.config
           /\ configFile' = loaded.configFile
           /\ diskConfig' = loaded.diskConfig
           /\ emitted' = loaded.entries
           /\ emittedAt' = <<>>
           /\ lastEvent' = Event("load", serverStatus, loaded.result, configFile,
                                 "none", 0)
    /\ UNCHANGED <<serverStatus, minecraftProcess, serverReady, startTime,
                   mcProcs, mcStdin, tunnelVars, world, worldExists, backups,
                   playitInstalled, crashed, logVars, classified>>

\* The lines given to parseMinecraftLog on its own: every line of at most
\* MaxLineTexts texts.
ClassifyLines ==
    UNION {[1 .. n -> LineTexts] : n \in 0 .. MaxLineTexts}

\* parseMinecraftLog called on a line, whatever the caller.
ClassifyLine ==
    /\ ~crashed
    /\ classified.result.type = "none"
    /\ classified' = [classified EXCEPT !.result = ParseMinecraftLog(classified.line)]
    /\ lastEvent' = Event("classify", serverStatus, "none", "none", "none", 0)
    /\ UNCHANGED <<serverVars, tunnelVars, diskVars, playitInstalled, emitted, emittedAt,
                   crashed, configFile, logVars>>

\* ------------------------------------------------------ LogBroadcastBuffer
\* this.logs.slice(-n) that keeps the oldest n entries.
Slice_KeepsOldest(s, n) == SubSeq(s, 1, n)

\* s.slice(-n), for n > 0: the last n elements of s, all of s if it is shorter.
Slice(s, n) == IF Len(s) > n THEN SubSeq(s, Len(s) - n + 1, Len(s)) ELSE s

\* broadcastLog, whatever the caller; the entry is named by the number of
\* the call that made it.  It is pushed on this.logs, which is cut back to
\* its last maxLogs entries, and emitted as 'new-log' to the connected
\* socket.
BroadcastLogCall ==
    /\ ~crashed
    /\ appended < MaxAppends
    /\ socketState = "connected" => Len(socketLive) < MaxLive
    /\ LET logEntry == appended + 1
           pushed   == Append(logs, logEntry)
       IN  /\ logs' = IF Len(pushed) > maxLogs
                      THEN Slice(pushed, maxLogs) ELSE pushed
           /\ appended' = appended + 1
           /\ socketLive' = IF socketState = "connected"
                            THEN Append(socketLive, logEntry)
                            ELSE socketLive
    /\ lastEvent' = Event("log", serverStatus, "none", "none", "none", 0)
    /\ UNCHANGED <<serverVars, tunnelVars, diskVars, playitInstalled, emitted, emittedAt,
                   crashed, configFile, classified, socketState,
                   socketHistory>>

\* A 'connection' handler that sends all of this.logs but its last entry.
SocketConnect_StaleSnapshot ==
    /\ ~crashed
    /\ socketState = "idle"
    /\ socketState' = "connected"
    /\ socketHistory' = SubSeq(logs, 1, Len(logs) - 1)
    /\ lastEvent' = Event("connection", serverStatus, "none", "none", "none", 0)
    /\ UNCHANGED <<serverVars, tunnelVars, diskVars, playitInstalled, emitted, emittedAt,
                   crashed, configFile, classified, logs, appended,
                   socketLive>>

\* The 'connection' handler of the socket server: the socket, which from
\* now on is sent every 'new-log', is sent this.logs as 'recent-logs'.
SocketConnect ==
    /\ ~crashed
    /\ socketState = "idle"
    /\ socketState' = "connected"
    /\ socketHistory' = logs
    /\ lastEvent' = Event("connection", serverStatus, "none", "none", "none", 0)
    /\ UNCHANGED <<serverVars, tunnelVars, diskVars, playitInstalled, emitted, emittedAt,
                   crashed, configFile, classified, logs, appended,
                   socketLive>>

\* The socket disconnects: it is sent nothing more, and the next socket to
\* connect is a new one, which has been sent nothing.
SocketDisconnect ==
    /\ ~crashed
    /\ socketState = "connected"
    /\ socketState' = "idle"
    /\ socketHistory' = <<>>
    /\ socketLive' = <<>>
    /\ lastEvent' = Event("disconnect", serverStatus, "none", "none", "none", 0)
    /\ UNCHANGED <<serverVars, tunnelVars, diskVars, playitInstalled, emitted, emittedAt,
                   crashed, configFile, classified, logs, appended>>

\* A call of startPlayitTunnel on its own, whatever the caller.
StartPlayitTunnelCall ==
    /\ Serving
    /\ \E spawned \in BOOLEAN, playitFound \in BOOLEAN :
           LET t == StartPlayitTunnel(TunnelState, playitInstalled, spawned)
           IN  /\ (playitInstalled /\ playitProcess = NULL)
                     => TunnelIds \ tunnelProcs # {}
               /\ ~(playitInstalled /\ playitProcess = NULL) => spawned
               /\ t.proc = playitProcess => playitFound
               /\ crashed' = ~playitFound
               /\ SetTunnel(IF playitFound THEN t
                            ELSE [t EXCEPT !.procs = tunnelProcs])
               /\ emitted' = t.entries
               /\ lastEvent' = Event("tunnel start", serverStatus,
                                     IF t.proc # playitProcess THEN "spawned"
                                     ELSE IF playitInstalled /\ playitProcess = NULL
                                     THEN "failed" ELSE "skipped",
                                     "none", "none", 0)
               /\ UNCHANGED <<serverVars, diskVars, playitInstalled>>

\* A call of stopPlayitTunnel on its own, whatever the caller.
StopPlayitTunnelCall ==
    /\ Serving
    /\ UNCHANGED crashed
    /\ LET t == StopPlayitTunnel(TunnelState)
       IN  /\ SetTunnel(t)
           /\ emitted' = t.entries
           /\ lastEvent' = Event("tunnel stop", serverStatus, "none", "none",
                                 "none", 0)
           /\ UNCHANGED <<serverVars, diskVars, playitInstalled>>

\* ---------------------------------------------------------- specification
\* The orchestrator lives, ./config.json holds the document that was loaded,
\* and nothing was logged or classified yet.
Quiet ==
    /\ crashed = FALSE
    /\ emittedAt = <<>>
    /\ logs = <<>>
    /\ appended = 0
    /\ socketState = "idle"
    /\ socketHistory = <<>>
    /\ socketLive = <<>>

Unfollowed ==
    /\ Quiet
    /\ configFile = "current"
    /\ classified = [line |-> <<>>, result |-> Entry("", "none")]

\* The state after the constructor: loadConfig has read a document whose
\* world block is present (migrated if it was not); the playit and the
\* performance block are whatever the document holds.
ConfigDocuments ==
    [seed : Seeds, lastUsedSeed : Seeds, currentSeed : Seeds,
     worldGenerated : BOOLEAN, playit : {"missing", "auto", "manual"},
     performance : BOOLEAN]

\* The documents without a world block.
LegacyDocuments ==
    {doc \in ConfigDocuments :
        /\ doc.currentSeed = ""
        /\ doc.lastUsedSeed = ""
        /\ doc.worldGenerated = FALSE}

\* The initial hosts: one with the tunnel binary has a world directory and
\* an unchanged seed; the other states of the world directory and of the
\* seed are explored on hosts without the binary, and under GuardSpec.
Init ==
    /\ serverStatus = "offline"
    /\ minecraftProcess = NULL
    /\ serverReady = FALSE
    /\ startTime = NULL
    /\ emitted = <<>>
    /\ config \in {c \in ConfigDocuments :
                     /\ c.lastUsedSeed = ""
                     /\ c.currentSeed = c.lastUsedSeed
                     /\ c.worldGenerated}
    /\ diskConfig = config
    /\ worldExists \in BOOLEAN
    /\ world = IF worldExists THEN FreshWorld ELSE NoFiles
    /\ backups = <<>>
    /\ playitInstalled \in (IF worldExists /\ config.seed = config.lastUsedSeed
                            THEN BOOLEAN ELSE {FALSE})
    /\ playitProcess = NULL
    /\ playitAddresses = NoAddresses
    /\ lastPlayitOutput = <<>>
    /\ playitTunnelsDetected = FALSE
    /\ playitSetupUrl = NoAddress
    /\ mcProcs = {}
    /\ mcStdin = <<>>
    /\ tunnelProcs = {}
    /\ tunnelSignalled = {}
    /\ lastEvent = Event("init", "offline", "none", "none", "none", 0)
    /\ Unfollowed

Next ==
    \/ PostStart
    \/ PostStop
    \/ PostCommand
    \/ McStdout
    \/ McStderr
    \/ McClose
    \/ McWritesWorld
    \/ PlayitStdoutData
    \/ PlayitStderrData
    \/ PlayitCloseEvent

Spec == Init /\ [][Next]_vars

\* The orchestrator on a host without the tunnel binary, with the seed of
\* the configuration edited through POST /config: every pair of configured
\* and last-used seed meets every state of the world directory.
GuardInit ==
    /\ serverStatus = "offline"
    /\ minecraftProcess = NULL
    /\ serverReady = FALSE
    /\ startTime = NULL
    /\ emitted = <<>>
    /\ config \in {c \in ConfigDocuments :
                     /\ c.currentSeed = c.lastUsedSeed
                     /\ c.playit = "manual"
                     /\ c.performance}
    /\ diskConfig = config
    /\ worldExists \in BOOLEAN
    /\ world = IF worldExists THEN FreshWorld ELSE NoFiles
    /\ backups = <<>>
    /\ playitInstalled = FALSE
    /\ playitProcess = NULL
    /\ playitAddresses = NoAddresses
    /\ lastPlayitOutput = <<>>
    /\ playitTunnelsDetected = FALSE
    /\ playitSetupUrl = NoAddress
    /\ mcProcs = {}
    /\ mcStdin = <<>>
    /\ tunnelProcs = {}
    /\ tunnelSignalled = {}
    /\ lastEvent = Event("init", "offline", "none", "none", "none", 0)
    /\ Unfollowed

GuardNext ==
    \/ PostConfig
    \/ PostStart
    \/ PostStop
    \/ McStdout
    \/ McClose
    \/ McWritesWorld

GuardSpec == GuardInit /\ [][GuardNext]_vars

\* The tunnel supervisor on its own: startPlayitTunnel and stopPlayitTunnel
\* called in any order, on a host with or without the tunnel binary, while
\* the tunnel processes print and exit.
Constructed ==
    /\ serverStatus = "offline"
    /\ minecraftProcess = NULL
    /\ serverReady = FALSE
    /\ startTime = NULL
    /\ emitted = <<>>
    /\ worldExists = FALSE
    /\ world = NoFiles
    /\ backups = <<>>
    /\ playitInstalled \in BOOLEAN
    /\ playitProcess = NULL
    /\ playitAddresses = NoAddresses
    /\ lastPlayitOutput = <<>>
    /\ playitTunnelsDetected = FALSE
    /\ playitSetupUrl = NoAddress
    /\ mcProcs = {}
    /\ mcStdin = <<>>
    /\ tunnelProcs = {}
    /\ tunnelSignalled = {}
    /\ lastEvent = Event("init", "offline", "none", "none", "none", 0)

TunnelInit ==
    /\ Constructed
    /\ config = DefaultConfig
    /\ diskConfig = config
    /\ Unfollowed

TunnelNext ==
    \/ StartPlayitTunnelCall
    \/ StopPlayitTunnelCall
    \/ PlayitStdoutData
    \/ PlayitStderrData
    \/ PlayitCloseEvent

TunnelSpec == TunnelInit /\ [][TunnelNext]_vars

\* The binding table on its own: a tunnel process, started by whatever
\* caller, prints binding lines in any order and any number of times.
BindNext ==
    \/ StartPlayitTunnelCall
    \/ PlayitBindingData

BindSpec == TunnelInit /\ [][BindNext]_vars

\* The log buffer on its own: broadcastLog called any number of times, by
\* whatever handler, while a web client connects and disconnects.
LogNext ==
    \/ BroadcastLogCall
    \/ SocketConnect
    \/ SocketDisconnect

LogSpec == TunnelInit /\ [][LogNext]_vars

\* The classifier on its own: parseMinecraftLog applied to any line.
ClassifyNext == ClassifyLine

\* Any line is given to it.
ClassifyInit ==
    /\ Constructed
    /\ config = DefaultConfig
    /\ diskConfig = config
    /\ Quiet
    /\ configFile = "current"
    /\ classified \in [line : ClassifyLines, result : {Entry("", "none")}]

ClassifySpec == ClassifyInit /\ [][ClassifyNext]_vars

\* The configuration file on its own: orchestrators started one after the
\* other on a host whose config.json is absent, unreadable, without a world
\* block, or complete.
LoadInit ==
    /\ Constructed
    /\ Quiet
    /\ classified = [line |-> <<>>, result |-> Entry("", "none")]
    /\ config = DefaultConfig
    /\ \/ configFile \in {"absent", "garbage"} /\ diskConfig = DefaultConfig
       \/ configFile = "legacy" /\ diskConfig \in LegacyDocuments
       \/ configFile = "current" /\ diskConfig \in ConfigDocuments

LoadNext == LoadConfigCall

LoadSpec == LoadInit /\ [][LoadNext]_vars

\* ------------------------------------------------------------------ claims
Active == {"starting", "online", "stopping"}

\* The step is an accepted start: checkSeedChange ran in it.
EvaluateRan == serverStatus = "offline" /\ serverStatus' = "starting"

\* C1: whenever checkSeedChange returns backup_failed, whether copying or
\* deleting failed, the world directory holds exactly the files it held
\* before the call.
C1_BackupFailedKeepsWorld ==
    [][(EvaluateRan /\ lastEvent'.reason = "backup_failed")
          => (world' = world /\ worldExists' = worldExists)]_vars

\* C2: the status becomes online only from starting and only on a
\* startup-complete line; such a line in any other status leaves the status
\* unchanged, so stopping is left only by the process exit, to offline.
C2_OnlineOnlyFromStarting ==
    [][/\ (serverStatus # "online" /\ serverStatus' = "online")
            => (serverStatus = "starting" /\ lastEvent'.op = "done line")
       /\ (lastEvent'.op = "done line" /\ serverStatus # "starting")
            => serverStatus' = serverStatus
       /\ (serverStatus = "stopping" /\ serverStatus' # "stopping")
            => (serverStatus' = "offline" /\ lastEvent'.op = "close")]_vars

\* C3: the managed-process handle is non-null exactly when the status is
\* starting, online or stopping.
C3_HandleIffActive ==
    (minecraftProcess # NULL) <=> (serverStatus \in Active)

\* C4: a second start() arriving while the first has not reached online is
\* rejected, and exactly one managed process is spawned and alive.
C4_SecondStartIsNoOp ==
    [][(lastEvent'.op = "start" /\ serverStatus = "starting")
          => /\ lastEvent'.result = "rejected"
             /\ mcProcs' = mcProcs
             /\ Cardinality(mcProcs') = 1
             /\ minecraftProcess' \in mcProcs']_vars

\* C5: start() in starting, online or stopping spawns nothing, changes no
\* state and answers the no-op result, never success.
C5_StartOnlyFromOffline ==
    [][(lastEvent'.op = "start" /\ serverStatus \in Active)
          => /\ lastEvent'.result = "rejected"
             /\ UNCHANGED <<serverVars, tunnelVars, diskVars>>]_vars

\* C6: stop() in stopping writes no further shutdown command and changes
\* neither the status nor the tunnel.
C6_StopInStoppingIsNoOp ==
    [][(lastEvent'.op = "stop" /\ serverStatus = "stopping")
          => /\ mcStdin' = mcStdin
             /\ serverStatus' = serverStatus
             /\ UNCHANGED tunnelVars]_vars

\* C7: stop() in starting or online sets the status to stopping, leaves the
\* tunnel idle and writes the shutdown command once; it kills no managed
\* process, and the status leaves the active ones only on the process exit.
C7_StopRequestsShutdown ==
    [][/\ (lastEvent'.op = "stop" /\ serverStatus \in {"starting", "online"})
            => /\ serverStatus' = "stopping"
               /\ playitProcess' = NULL
               /\ mcStdin' = Append(mcStdin, "stop\n")
               /\ mcProcs' = mcProcs
               /\ minecraftProcess' = minecraftProcess
       /\ (serverStatus \in Active /\ serverStatus' = "offline")
            => lastEvent'.op = "close"]_vars

\* C8: stop() in offline reports failure and changes nothing: status,
\* handle, tunnel, bindings, and nothing is written to any stdin.
C8_StopWhenOfflineIsNoOp ==
    [][(lastEvent'.op = "stop" /\ serverStatus = "offline")
          => /\ lastEvent'.result = "rejected"
             /\ emitted' = <<>>
             /\ UNCHANGED <<serverVars, tunnelVars, diskVars>>]_vars

\* C8 witness: stop() was called in offline, after a managed process had
\* been told to stop and had exited, and was rejected.
C8_Witness ==
    /\ lastEvent.op = "stop"
    /\ lastEvent.from = "offline"
    /\ lastEvent.result = "rejected"
    /\ serverStatus = "offline"
    /\ mcStdin = <<"stop\n">>
    /\ mcProcs = {}

\* C9: the exit of the managed process, in any status and with any code,
\* sets the status to offline, clears the start time, leaves the tunnel idle
\* and clears both bindings.
C9_ExitGoesOffline ==
    [][lastEvent'.op = "close"
          => /\ serverStatus' = "offline"
             /\ startTime' = NULL
             /\ playitProcess' = NULL
             /\ playitAddresses' = NoAddresses]_vars

\* C9 witness: a managed process that was online exited with code 1 while
\* the tunnel was running, after the tunnel had reported a binding.
C9_Witness ==
    /\ lastEvent.op = "close"
    /\ lastEvent.from = "online"
    /\ lastEvent.code = 1
    /\ Entry("Stopping Playit tunnels", "info") \in Range(emitted)
    /\ lastPlayitOutput = <<BindLine("a1", javaPort), BindLine("b1", bedrockPort)>>
    /\ serverStatus = "offline"
    /\ playitAddresses = NoAddresses

\* C10 as stated: on exit with code 0 the 'stopped normally' entry has the
\* category info, on exit with another code the 'crashed' entry has the
\* category error.
C10_StoppedNormallyIsInfo ==
    [][lastEvent'.op = "close"
          => IF lastEvent'.code = 0
             THEN Entry("Server stopped normally", "info") \in Range(emitted')
             ELSE Entry("Server crashed", "error") \in Range(emitted')]_vars

\* C10 amended: on exit with code 0 the 'stopped normally' entry has the
\* category success and the 'exited with code' entry the category info; on
\* exit with another code the 'crashed' entry has the category error.
C10_StoppedNormallyIsSuccess ==
    [][lastEvent'.op = "close"
          => IF lastEvent'.code = 0
             THEN /\ emitted'[Len(emitted')] = Entry("Server stopped normally", "success")
                  /\ emitted'[1] = Entry("Minecraft server exited with code", "info")
                  /\ Entry("Server crashed", "error") \notin Range(emitted')
             ELSE /\ emitted'[Len(emitted')] = Entry("Server crashed", "error")
                  /\ Entry("Server stopped normally", "success") \notin Range(emitted')]_vars

\* C10 witness: a managed process exited with code 0 and the handler logged
\* that it stopped normally.
C10_Witness ==
    /\ lastEvent.op = "close"
    /\ lastEvent.code = 0
    /\ Entry("Server stopped normally", "success") \in Range(emitted)

\* C11: a managed process is spawned only by an accepted start() in
\* offline, one per call; its exit leaves offline with no process, and
\* offline with no process lasts until the next start().
C11_NoAutomaticRestart ==
    [][/\ (mcProcs' \ mcProcs # {})
            => /\ lastEvent'.op = "start"
               /\ lastEvent'.result = "success"
               /\ serverStatus = "offline"
               /\ Cardinality(mcProcs' \ mcProcs) = 1
       /\ lastEvent'.op = "close"
            => /\ serverStatus' = "offline"
               /\ minecraftProcess' = NULL
               /\ mcProcs' = {}
       /\ (serverStatus = "offline" /\ lastEvent'.op # "start")
            => /\ serverStatus' = "offline"
               /\ minecraftProcess' = NULL
               /\ mcProcs' = {}]_vars

\* C11 witness: a managed process that had been told to stop exited with
\* code 0, and a request was answered afterwards with the status still
\* offline and no process.
C11_Witness ==
    /\ lastEvent.op = "command"
    /\ lastEvent.from = "offline"
    /\ serverStatus = "offline"
    /\ minecraftProcess = NULL
    /\ mcProcs = {}
    /\ mcStdin = <<"stop\n">>

\* C12: a command is written to the stdin of the managed process, followed
\* by a newline, exactly when it is sent in online; in offline, starting and
\* stopping nothing is written and the answer is not a success.
C12_CommandOnlyWhenOnline ==
    [][/\ (lastEvent'.op = "command" /\ serverStatus = "online")
            => /\ lastEvent'.result = "success"
               /\ \E c \in Commands : mcStdin' = Append(mcStdin, c \o "\n")
       /\ (lastEvent'.op = "command" /\ serverStatus # "online")
            => /\ lastEvent'.result = "rejected"
               /\ mcStdin' = mcStdin
       /\ (Len(mcStdin') > Len(mcStdin)
              /\ mcStdin'[Len(mcStdin')] # "stop\n")
            => (lastEvent'.op = "command" /\ serverStatus = "online")]_vars

\* C12 witness: a command sent in online was written with its newline.
C12_Witness ==
    /\ lastEvent.op = "command"
    /\ lastEvent.from = "online"
    /\ lastEvent.result = "success"
    /\ mcStdin = <<"say hi\n">>

\* C13: the tunnel handle is non-null only while the status is starting or
\* online.
C13_TunnelOnlyWhileServing ==
    playitProcess # NULL => serverStatus \in {"starting", "online"}

\* C13 witness: the tunnel is running, with its Java binding reported, while
\* the status is online.
C13_Witness ==
    /\ playitProcess # NULL
    /\ playitProcess \in tunnelProcs
    /\ serverStatus = "online"
    /\ playitAddresses.java = "a1"

\* C14: whenever the tunnel handle is null, the Java and the Bedrock binding
\* are both empty, also when a tunnel process that was told to stop prints
\* before it exits.
C14_IdleTunnelHasNoBindings ==
    playitProcess = NULL => playitAddresses = NoAddresses

\* C15: whenever output holding the lines 'a1 => 127.0.0.1:25565' and
\* 'b1 => 127.0.0.1:19132' is delivered while the tunnel is running, the
\* Java binding is a1 and the Bedrock binding is b1 right afterwards, also
\* when the previous tunnel process printed the same output last.
C15_BindingFollowsOutput ==
    [][(/\ lastEvent'.op = "tunnel output"
        /\ lastEvent'.reason = "bindings"
        /\ playitProcess # NULL)
          => playitAddresses' = [java |-> "a1", bedrock |-> "b1"]]_vars

\* C16: startPlayitTunnel on a host where the binary was not detected, or
\* while the tunnel handle is non-null, spawns nothing, changes neither the
\* handle nor the bindings nor any other tunnel field, and logs one warning.
C16_TunnelStartIsNoOp ==
    [][(/\ lastEvent'.op = "tunnel start"
        /\ (~playitInstalled \/ playitProcess # NULL))
          => /\ lastEvent'.result = "skipped"
             /\ UNCHANGED tunnelVars
             /\ Len(emitted') = 1
             /\ emitted'[1].type = "warn"]_vars

\* C16 witness: startPlayitTunnel was called while the tunnel was running
\* with its bindings reported, and was skipped.
C16_Witness ==
    /\ lastEvent.op = "tunnel start"
    /\ lastEvent.result = "skipped"
    /\ playitInstalled
    /\ playitProcess # NULL
    /\ playitAddresses = [java |-> "a1", bedrock |-> "b1"]
    /\ emitted = <<Entry("Playit tunnel already running", "warn")>>

\* C17: a stop() or an exit of the managed process that stops the running
\* tunnel sends SIGTERM to the tunnel process and, in the same step, leaves
\* the handle null, both bindings empty and the setup URL empty.
C17_TunnelStopClears ==
    [][(/\ lastEvent'.op \in {"stop", "close"}
        /\ Entry("Stopping Playit tunnels", "info") \in Range(emitted'))
          => /\ playitProcess # NULL
             /\ playitProcess \in tunnelSignalled'
             /\ playitProcess' = NULL
             /\ playitAddresses' = NoAddresses
             /\ playitSetupUrl' = NoAddress
             /\ ~playitTunnelsDetected']_vars

\* C17 witness: stop() stopped a running tunnel whose last output was the
\* setup notice, and the setup URL is empty.
C17_Witness ==
    /\ lastEvent.op = "stop"
    /\ Entry("Stopping Playit tunnels", "info") \in Range(emitted)
    /\ lastPlayitOutput = <<SetupLine>>
    /\ tunnelSignalled # {}
    /\ playitProcess = NULL
    /\ playitSetupUrl = NoAddress

\* The entries startMinecraftServer logs when shouldCreateNew is true.
CreateNewEntries ==
    {Entry("Generating new world", "success"),
     Entry("New world will be generated with seed", "success")}

\* C18: for every configured and last-used seed, checkSeedChange without a
\* world directory returns shouldCreateNew with no_world_exists, and
\* afterwards currentSeed and lastUsedSeed of the world block are the
\* configured seed and worldGenerated is false.
C18_NoWorldCreatesNew ==
    [][(EvaluateRan /\ ~worldExists)
          => /\ lastEvent'.reason = "no_world_exists"
             /\ Entry("Generating new world", "success") \in Range(emitted')
             /\ config'.seed = config.seed
             /\ config'.currentSeed = config.seed
             /\ config'.lastUsedSeed = config.seed
             /\ ~config'.worldGenerated]_vars

\* C18 witness: start() without a world directory, with the configured seed
\* s1, recorded the seed in the world block and saved it.
C18_Witness ==
    /\ lastEvent.op = "start"
    /\ lastEvent.reason = "no_world_exists"
    /\ serverStatus = "starting"
    /\ ~worldExists
    /\ config.seed = "s1"
    /\ config.lastUsedSeed = "s1"
    /\ config.currentSeed = "s1"
    /\ ~config.worldGenerated
    /\ diskConfig = config

\* C19 as stated: when currentSeed of the world block equals its
\* lastUsedSeed and the world directory exists, checkSeedChange returns
\* seed_unchanged without shouldCreateNew and changes neither the world
\* directory, nor the backups, nor the configuration.
C19_BlockSeedsEqualIsUnchanged ==
    [][(EvaluateRan /\ worldExists /\ config.currentSeed = config.lastUsedSeed)
          => /\ lastEvent'.reason = "seed_unchanged"
             /\ Range(emitted') \cap CreateNewEntries = {}
             /\ UNCHANGED diskVars]_vars

\* C19 amended: when the configured seed (server.seed) equals lastUsedSeed
\* of the world block and the world directory exists, checkSeedChange
\* returns seed_unchanged without shouldCreateNew and changes neither the
\* world directory, nor the backups, nor the configuration.
C19_ConfiguredSeedEqualIsUnchanged ==
    [][(EvaluateRan /\ worldExists /\ config.seed = config.lastUsedSeed)
          => /\ lastEvent'.reason = "seed_unchanged"
             /\ Range(emitted') \cap CreateNewEntries = {}
             /\ UNCHANGED diskVars]_vars

\* C19 witness: start() over an existing world with the configured seed s1
\* equal to the last-used seed.
C19_Witness ==
    /\ lastEvent.op = "start"
    /\ lastEvent.reason = "seed_unchanged"
    /\ serverStatus = "starting"
    /\ config.seed = "s1"
    /\ config.lastUsedSeed = "s1"
    /\ worldExists
    /\ world = FreshWorld

\* C20: whenever checkSeedChange returns seed_changed, one backup directory
\* was added, apart from the world directory, and it holds exactly the
\* files, with their contents, that the world directory held before.
C20_BackupReproducesWorld ==
    [][(EvaluateRan /\ lastEvent'.reason = "seed_changed")
          => /\ worldExists
             /\ Len(backups') = Len(backups) + 1
             /\ SubSeq(backups', 1, Len(backups)) = backups
             /\ backups'[Len(backups')] = world]_vars

\* C20 witness: start() with a changed seed backed up a world directory that
\* held every file.
C20_Witness ==
    /\ lastEvent.op = "start"
    /\ lastEvent.reason = "seed_changed"
    /\ backups = <<FreshWorld>>
    /\ ~worldExists

\* The configuration was saved, or the write failed, the failure was logged
\* and ./config.json is as it was.
SavedOrLogged ==
    \/ diskConfig' = config'
    \/ /\ diskConfig' = diskConfig
       /\ Entry("Failed to save config", "error") \in Range(emitted')

\* The step is a checkSeedChange over an existing world with a changed seed
\* whose backup succeeded.
BackupSucceeded ==
    /\ EvaluateRan
    /\ worldExists
    /\ config.seed # config.lastUsedSeed
    /\ lastEvent'.stage = "done"

C22_GuardBeforeSpawn ==
    [][/\ ((world' # world \/ worldExists' # worldExists \/ backups' # backups)
              /\ lastEvent'.op # "world written")
            => /\ lastEvent'.op = "start"
               /\ mcProcs = {}
               /\ minecraftProcess = NULL
       /\ (mcProcs' \ mcProcs # {})
            => lastEvent'.reason \in {"no_world_exists", "seed_changed",
                                      "seed_unchanged", "backup_failed"}]_vars

\* C22 witness: a start() whose backup failed while removing the world
\* directory spawned the managed process afterwards.
C22_Witness ==
    /\ lastEvent.op = "start"
    /\ lastEvent.stage = "remove"
    /\ Len(backups) = 1
    /\ minecraftProcess # NULL
    /\ mcProcs = {minecraftProcess}

C28_SpawnFailureReverts ==
    [][(/\ lastEvent'.op = "start"
        /\ minecraftProcess' # NULL
        /\ minecraftProcess' \notin mcProcs')
          => /\ serverStatus' = "offline"
             /\ lastEvent'.result # "success"
             /\ \E i \in 1 .. Len(emitted') : emitted'[i].type = "error"
             /\ ~crashed']_vars

\* The step is a checkSeedChange that attempts a backup.
BackupAttempted ==
    /\ EvaluateRan
    /\ worldExists
    /\ config.seed # config.lastUsedSeed

\* C29: whatever the step at which a backup stops, no file of the world
\* directory is gone unless the backup directory holds every file, so each
\* file of the world as it was is in the world directory or in the backup.
C29_CopyThenDelete ==
    [][BackupAttempted
          => LET made == Len(backups') = Len(backups) + 1
                 copy == backups'[Len(backups')]
             IN  /\ world' # world => (made /\ copy = world)
                 /\ \A f \in Files :
                       world[f] # 0
                         => \/ world'[f] = world[f]
                            \/ (made /\ copy[f] = world[f])]_vars

\* C29 witness: a backup stopped while removing the world directory: a file
\* is gone from it and the backup holds every file.
C29_Witness ==
    /\ lastEvent.op = "start"
    /\ lastEvent.reason = "backup_failed"
    /\ worldExists
    /\ world # FreshWorld
    /\ backups = <<FreshWorld>>

\* C30: when checkSeedChange returns backup_failed, start() answers success,
\* the status is starting, the managed process is spawned over the world
\* directory as it was, and the error entry on the backup was logged.
C30_BackupFailedStillStarts ==
    [][(EvaluateRan /\ lastEvent'.reason = "backup_failed")
          => /\ lastEvent'.result = "success"
             /\ serverStatus' = "starting"
             /\ minecraftProcess' \in mcProcs'
             /\ world' = world
             /\ worldExists' = worldExists
             /\ Entry("Failed to backup world", "error") \in Range(emitted')]_vars

\* C24: after any number n of broadcastLog calls, this.logs holds at most
\* maxLogs entries: the entries of the last min(n, maxLogs) calls, oldest
\* first.
C24_BufferKeepsMostRecent ==
    /\ Len(logs) = (IF appended < maxLogs THEN appended ELSE maxLogs)
    /\ \A i \in 1 .. Len(logs) : logs[i] = appended - Len(logs) + i

\* C24 witness: after maxLogs + 2 calls the buffer holds maxLogs entries,
\* the oldest of which is the entry of the third call.
C24_Witness ==
    /\ appended = maxLogs + 2
    /\ Len(logs) = maxLogs
    /\ logs[1] = 3
    /\ logs[maxLogs] = maxLogs + 2

\* C25: what a socket was sent, 'recent-logs' followed by its 'new-log'
\* entries, is a run of consecutive entries in the order of the calls,
\* none missing and none twice, which ends at the latest entry.
C25_ReplayThenLive ==
    LET seen == socketHistory \o socketLive
    IN  socketState = "connected"
          => /\ \A i \in 1 .. Len(seen) - 1 : seen[i + 1] = seen[i] + 1
             /\ IF seen = <<>> THEN appended = 0
                ELSE seen[Len(seen)] = appended
             /\ Len(socketLive) > 0 /\ Len(socketHistory) > 0
                  => socketLive[1] = socketHistory[Len(socketHistory)] + 1

\* C25 witness: a socket connected after the buffer had dropped its oldest
\* entry and was then sent a live entry.
C25_Witness ==
    /\ socketState = "connected"
    /\ Len(socketHistory) = maxLogs
    /\ socketHistory[1] > 1
    /\ Len(socketLive) > 0

\* The rules of the classifier, in their order: whether rule k applies to
\* a line, and the category it gives.
RuleMatches(k, line) ==
    CASE k = 1 -> Includes(line, "joined the game")
      [] k = 2 -> Includes(line, "left the game")
      [] k = 3 -> Includes(line, "<") /\ Includes(line, ">")
      [] k = 4 -> Includes(line, "Starting minecraft server version")
      [] k = 5 -> Includes(line, "Done (") /\ Includes(line, "For help, type \"help\"")
      [] k = 6 -> Includes(line, "Preparing spawn area") \/ Includes(line, "Preparing level")
      [] k = 7 -> Includes(line, "Time elapsed:")
      [] k = 8 -> Includes(line, "Loading") /\ Includes(line, "plugin")
      [] k = 9 -> Includes(line, "Enabling") /\ Includes(line, "plugin")
      [] k = 10 -> Includes(line, "Started Geyser")
      [] k = 11 -> Includes(line, "ViaVersion") /\ Includes(line, "enabled")
      [] k = 12 -> Includes(line, "ERROR") \/ Includes(line, "SEVERE")
      [] k = 13 -> Includes(line, "WARN")
      [] k = 14 -> TRUE

RuleCategory(k) ==
    CASE k \in {1, 2, 3} -> "player"
      [] k \in {4, 5, 9, 10, 11} -> "success"
      [] k \in {6, 7} -> "world"
      [] k \in {8, 14} -> "info"
      [] k = 12 -> "error"
      [] k = 13 -> "warn"

FirstRule(line) ==
    CHOOSE k \in 1 .. 14 :
        RuleMatches(k, line) /\ \A j \in 1 .. k - 1 : ~RuleMatches(j, line)

\* C26: the category parseMinecraftLog gives a line is that of the first
\* of the fourteen rules that applies to it; a line to which only the last
\* rule applies keeps its text; "Alice joined the game" is a player line
\* whose message names Alice and says she joined.
C26_FirstMatchingRule ==
    lastEvent.op = "classify"
      => /\ classified.result.type = RuleCategory(FirstRule(classified.line))
         /\ FirstRule(classified.line) = 14
              => classified.result = Entry(Text(classified.line), "info")
         /\ classified.line = <<"Alice", "joined the game">>
              => classified.result = Entry("(green) Alice joined the game", "player")

\* C26 witness: a line with both "joined the game" and "ERROR" has been
\* classified as a player line.
C26_Witness ==
    /\ lastEvent.op = "classify"
    /\ classified.line = <<"ERROR", "joined the game">>
    /\ classified.result.type = "player"

\* A load has just read a document without a world block.
LoadedLegacy == lastEvent'.op = "load" /\ configFile = "legacy"

\* What load() does to a legacy document: the block it adds holds the
\* legacy seed twice and a generated world, the other fields are kept, and
\* the document is on disk.
MigratedAndPersisted ==
    /\ config'.currentSeed = diskConfig.seed
    /\ config'.lastUsedSeed = diskConfig.seed
    /\ config'.worldGenerated = TRUE
    /\ config'.seed = diskConfig.seed
    /\ config'.playit = diskConfig.playit
    /\ config'.performance = diskConfig.performance
    /\ configFile' = "current"
    /\ diskConfig' = config'

\* C27 as stated: a load of a legacy document migrates and persists it, and
\* a load that follows a load changes nothing and migrates nothing.
C27_LoadMigratesLegacy ==
    [][/\ LoadedLegacy => MigratedAndPersisted
       /\ lastEvent.op = "load" /\ lastEvent'.op = "load"
            => /\ config' = config
               /\ diskConfig' = diskConfig
               /\ lastEvent'.result # "migrated"]_vars

\* C27: a load of a legacy document migrates and persists it, unless the
\* write fails: then the failure is logged and the default document is
\* used; a load that follows a load which left the document it returned on
\* disk changes nothing and migrates nothing.
C27_LoadMigratesLegacyIfWritten ==
    [][/\ LoadedLegacy
            => \/ MigratedAndPersisted
               \/ /\ config' = DefaultConfig
                  /\ Entry("Error loading config", "error") \in Range(emitted')
       /\ (/\ lastEvent.op = "load" /\ lastEvent'.op = "load"
           /\ configFile = "current" /\ diskConfig = config)
            => /\ config' = config
               /\ diskConfig' = diskConfig
               /\ lastEvent'.result # "migrated"]_vars

\* C27 witness: a legacy document with a seed has been migrated and written.
C27_Witness ==
    /\ lastEvent.op = "load"
    /\ lastEvent.reason = "legacy"
    /\ lastEvent.result = "migrated"
    /\ config.seed = "s1"
    /\ config.currentSeed = "s1"
    /\ config.lastUsedSeed = "s1"
    /\ config.worldGenerated
    /\ configFile = "current"
    /\ diskConfig = config

\* C31: when the stdout handler passes the entry of the readiness
\* transition, "SERVER IS NOW ONLINE", and the connection-info entries that
\* follow it to broadcastLog, GET /status already answers online with the
\* readiness flag set.
C31_OnlineBeforeSummary ==
    lastEvent.op = "done line"
      => /\ Len(emittedAt) = Len(emitted)
         /\ \A i \in 1 .. Len(emitted) :
                (\E j \in 1 .. i : emitted[j] = Entry("SERVER IS NOW ONLINE", "success"))
                  => emittedAt[i] = Status("online", TRUE)

\* C31 witness: a startup-complete line read while starting has logged the
\* summary and the connection information, the line's own entry having
\* been logged while the state was still starting.
C31_Witness ==
    /\ lastEvent.op = "done line"
    /\ lastEvent.from = "starting"
    /\ emittedAt[1] = Status("starting", FALSE)
    /\ Entry("SERVER IS NOW ONLINE", "success") \in Range(emitted)
    /\ emitted[Len(emitted)] = Entry("Share these addresses with friends", "success")
    /\ emittedAt[Len(emitted)] = Status("online", TRUE)

\* C32: the one entry the stdout handler and the stderr handler log for a
\* line is what parseMinecraftLog makes of that line.
C32_EveryLineClassified ==
    [][lastEvent'.op \in {"line", "stderr"}
         => \E line \in McLines \cup McErrLines :
                /\ Text(line) = lastEvent'.reason
                /\ emitted' = <<ParseMinecraftLog(line)>>]_vars

\* The stdout handler of the tunnel has just parsed a chunk: one that
\* differs from the chunk it was given before.
ParsedChunk ==
    lastEvent'.op = "tunnel output" /\ lastPlayitOutput' # lastPlayitOutput

\* The chunk just parsed has a binding line for the port.
BindsPort(port) ==
    \E i \in 1 .. Len(lastPlayitOutput') :
        /\ lastPlayitOutput'[i].kind = "bind"
        /\ lastPlayitOutput'[i].port = port

\* The chunk just parsed has a binding line for the port whose address is
\* not the stored one.
RebindsPort(port, stored) ==
    \E i \in 1 .. Len(lastPlayitOutput') :
        /\ lastPlayitOutput'[i].kind = "bind"
        /\ lastPlayitOutput'[i].port = port
        /\ lastPlayitOutput'[i].address # stored

\* C33: a tunnel-ready entry for a port is logged only when the chunk has
\* a binding line for that port with an address other than the stored
\* one; a chunk of binding lines that all repeat the stored bindings
\* changes no binding and logs nothing.
C33_ReadyOnlyOnChange ==
    [][ParsedChunk
         => /\ Entry("Java tunnel ready", "success") \in Range(emitted')
                 => RebindsPort(javaPort, playitAddresses.java)
            /\ Entry("Bedrock tunnel ready", "success") \in Range(emitted')
                 => RebindsPort(bedrockPort, playitAddresses.bedrock)
            /\ (/\ BindsPort(javaPort) \/ BindsPort(bedrockPort)
                /\ ~RebindsPort(javaPort, playitAddresses.java)
                /\ ~RebindsPort(bedrockPort, playitAddresses.bedrock))
                 => /\ playitAddresses' = playitAddresses
                    /\ emitted' = <<>>]_vars

\* C33 witness: the stored Java and Bedrock bindings were printed again, in
\* a new chunk, and nothing was logged.
C33_Witness ==
    /\ lastEvent.op = "tunnel output"
    /\ lastPlayitOutput = <<BindLine("b1", bedrockPort), BindLine("a1", javaPort)>>
    /\ playitAddresses = [java |-> "a1", bedrock |-> "b1"]
    /\ emitted = <<>>

\* C34: a chunk without a binding line for a port leaves the binding of
\* that port as it was; so a line for one port leaves the other port's
\* binding, and a line for a port that is neither leaves both.
C34_OtherBindingUntouched ==
    [][ParsedChunk
         => /\ ~BindsPort(javaPort)
                 => playitAddresses'.java = playitAddresses.java
            /\ ~BindsPort(bedrockPort)
                 => playitAddresses'.bedrock = playitAddresses.bedrock]_vars

\* C34 witness: with both ports bound, a line for a port that is neither
\* has been parsed and both bindings stand.
C34_Witness ==
    /\ lastEvent.op = "tunnel output"
    /\ lastPlayitOutput = <<BindLine("a1", otherPort)>>
    /\ playitAddresses = [java |-> "a2", bedrock |-> "b1"]

\* C35: a tunnel event (a call of startPlayitTunnel whether or not the
\* tunnel process can be started, tunnel output on either stream, a tunnel
\* exit) leaves the lifecycle state, the handle of the managed process and
\* the start timestamp as they were, and the orchestrator alive.
C35_TunnelEventsLeaveServer ==
    [][lastEvent'.op \in {"tunnel start", "tunnel output", "tunnel stderr",
                          "tunnel close"}
         => /\ UNCHANGED <<serverStatus, minecraftProcess, startTime>>
            /\ ~crashed']_vars

\* The tunnel processes that are alive and were not sent SIGTERM.
Unsignalled == tunnelProcs \ tunnelSignalled

\* C36: while the orchestrator lives, no tunnel process is alive and
\* unsignalled when the server is offline, at most one is at any time, and
\* the exit of a tunnel process other than the one the handle holds leaves
\* the handle and the bindings as they were.
C36_NoOrphanTunnel ==
    [][~crashed'
         => /\ serverStatus' = "offline" => Unsignalled' = {}
            /\ Cardinality(Unsignalled') <= 1
            /\ (/\ lastEvent'.op = "tunnel close"
                /\ playitProcess # NULL
                /\ playitProcess \in tunnelProcs')
                 => /\ playitProcess' = playitProcess
                    /\ playitAddresses' = playitAddresses]_vars

\* C37: while the orchestrator lives, a start accepted when offline ends
\* either starting with the handle on a live managed process, or offline.
C37_StartEndsStartingOrOffline ==
    [][(/\ lastEvent'.op = "start"
        /\ lastEvent'.result # "rejected"
        /\ serverStatus = "offline"
        /\ ~crashed')
         => \/ serverStatus' = "starting" /\ minecraftProcess' \in mcProcs'
            \/ serverStatus' = "offline"]_vars

\* C38: the readiness flag is set exactly when the lifecycle state is
\* online.
C38_ReadyIffOnline == serverReady <=> serverStatus = "online"

====
